---- MODULE Spec2Model ----
(***************************************************************************)
(* PseudoLookup: a PCF control that keeps a serialized bound value         *)
(* ("guid:table;guid:table") consistent with an in-memory selection that   *)
(* is enriched asynchronously through the Web API.                         *)
(*                                                                         *)
(* Strings are modelled structurally.  A bound value is the sequence of    *)
(* its ';'-separated segments; a segment records whether it has a ':' and  *)
(* the text before and after the first ':'.  Two bound values are the same *)
(* JavaScript string exactly when they are the same sequence.  GUIDs and   *)
(* table names are short tokens: "g1" stands for a canonical 36-character  *)
(* GUID, "{G1}" for the same GUID upper-cased inside braces.               *)
(***************************************************************************)
EXTENDS Integers, Sequences, FiniteSets, TLC

VARIABLES
    raw,                 \* this.context.parameters.boundField.raw
    cfg,                 \* this.context.parameters: allowMultiSelect, maxSelections, lookupTables
    selectedRecords,     \* this.selectedRecords
    errorMessage,        \* this.errorMessage
    boundFieldValue,     \* this.boundFieldValue
    recordNamesValue,    \* this.recordNamesValue
    isInitialized,       \* this.isInitialized
    lastBoundValue,      \* this.lastBoundValue
    isLoadingInProgress, \* this.isLoadingInProgress
    iconCacheLoaded,     \* this.iconCacheLoaded
    stateVersion,        \* this.stateVersion
    stateUpdater,        \* this.stateUpdater: NoListener (null) or the callback registered last
    isNavigating,        \* this.isNavigating
    inflight,            \* loadInitialData calls suspended at `await retrieveAllRecords`
    iconLoads,           \* loadTableIcons calls suspended at `await getTableIconsForTables`
    pickerOpen,          \* a handleLookupClick call is suspended at `await openLookupDialog`
    navigations,         \* handleNavigateToRecord calls suspended at `await openRecordForm`
    navTimers,           \* pending setTimeout callbacks that reset isNavigating, oldest first;
                         \* rejected (history): armed after openRecordForm had rejected
    destroyed,           \* the framework has called destroy()
    calls,               \* history: the stateUpdater invocations made by the handler that ran last
    lastDelivered,       \* history: the version passed to a stateUpdater callback last
    notified,            \* history: the handler that ran last called notifyOutputChanged()
    dismissed,           \* history: the handler that ran last was a picker call ending with no records
    boundFromPending,    \* history: the last write of boundFieldValue serialized an isLoading entry
    lastResumed,         \* history: the loadInitialData call that resumed last, and how it ended
    retrieval,           \* a retrieveAllRecords call taken alone: its promises and its result
    codec,               \* parseBoundValue / serializeToBoundValue taken alone: a string and what they make of it
    filterCall           \* generateExclusionFilter taken alone: its arguments and its result

\* The control and its histories.
control == <<raw, cfg, selectedRecords, errorMessage, boundFieldValue, recordNamesValue,
             isInitialized, lastBoundValue, isLoadingInProgress, iconCacheLoaded,
             stateVersion, stateUpdater, isNavigating, inflight, iconLoads, pickerOpen,
             navigations, navTimers, destroyed, calls, lastDelivered, notified, dismissed,
             boundFromPending, lastResumed>>

\* The utility functions taken alone.
utilities == <<retrieval, codec, filterCall>>

vars == <<control, utilities>>

(***************************************************************************)
(* Bounds of the model.                                                    *)
(***************************************************************************)
MaxVersion == 5      \* no handler starts once stateVersion has reached this value
MaxInFlight == 2     \* concurrent suspended loadInitialData calls
MaxIconLoads == 1    \* concurrent suspended loadTableIcons calls
MaxListeners == 2    \* distinct callbacks the component registers

(***************************************************************************)
(* Values of the TypeScript types.                                         *)
(***************************************************************************)
Null == << [colon |-> FALSE, id |-> "", table |-> "null"] >>   \* lastBoundValue: null (no string has this shape)
\* errorMessage: string | undefined.  A message is its text with the numbers
\* interpolated into it (n: the maximum, k: the count removed).
Message(text, n, k) == [text |-> text, n |-> n, k |-> k]
Undefined == Message("undefined", 0, 0)
EmptyString == << >>           \* ''
NoListener == 0                \* stateUpdater: null
Listeners == 1..MaxListeners   \* the closures MultiTableLookup's effect passes to onStateUpdaterReady

Seg(id, table) == [colon |-> TRUE, id |-> id, table |-> table]
Text(t) == [colon |-> FALSE, id |-> t, table |-> ""]

\* The external values the host presents, besides echoing the control's own output.
BoundValues ==
    { EmptyString,
      << Text(" ") >>,
      << Seg("not-a-guid", "account") >>,
      << Seg("g1", "contact") >>,
      << Seg("{G1}", "Contact") >>,
      << Seg("g2", "account") >>,
      << Seg("g1", "contact"), Seg("g2", "account") >>,
      << Seg("g1", "contact"), Seg("g1", "contact") >> }

\* The result lists the lookup dialog returns (ComponentFramework.LookupValue[]).
Pick(id, entityType, name) == [id |-> id, entityType |-> entityType, name |-> name]
PickResults ==
    { << Pick("g3", "contact", "Bob") >>,
      << Pick("{G1}", "Contact", "Jane Doe") >>,
      << Pick("g2", "account", "Acme"), Pick("g3", "contact", "Bob") >>,
      << Pick("g3", "contact", "Bob"), Pick("g3", "contact", "Bob") >> }

\* context.parameters.allowMultiSelect / maxSelections (0: not set) / lookupTables non-empty
Configs ==
    { [multi |-> FALSE, max |-> 0, tables |-> TRUE],
      [multi |-> TRUE,  max |-> 0, tables |-> TRUE],
      [multi |-> TRUE,  max |-> 2, tables |-> TRUE],
      [multi |-> TRUE,  max |-> 0, tables |-> FALSE] }

\* The primary name the record store holds for a record.
StoreName(id) ==
    CASE id = "g1" -> "Jane Doe"
      [] id = "g2" -> "Acme"
      [] OTHER     -> "Bob"

(***************************************************************************)
(* dataUtils                                                               *)
(***************************************************************************)
\* String.prototype.trim on the modelled texts: only " " has whitespace.
Trim(s) == IF s = " " THEN "" ELSE s

\* String.prototype.toLowerCase on the modelled table names.
ToLowerCase(s) == IF s = "Contact" THEN "contact" ELSE IF s = "Account" THEN "account" ELSE s

normalizeGuid(guid) ==
    IF guid = "" THEN ""
    ELSE CASE guid = "{G1}" -> "g1"
           [] guid = "{G2}" -> "g2"
           [] guid = "G1"   -> "g1"
           [] OTHER         -> guid

isValidGuid(value) ==
    IF value = "" THEN FALSE
    ELSE normalizeGuid(value) \in {"g1", "g2", "g3"}

\* Seq filter / map helpers (Array.prototype.filter keeps order).
RECURSIVE FilterSeq(_, _)
FilterSeq(s, keep) ==
    IF s = << >> THEN << >>
    ELSE IF keep[1] THEN << Head(s) >> \o FilterSeq(Tail(s), Tail(keep))
         ELSE FilterSeq(Tail(s), Tail(keep))

parseBoundValue(boundValue) ==
    LET valid == [i \in 1..Len(boundValue) |->
                    LET entry == boundValue[i] IN
                    /\ ~(~entry.colon /\ Trim(entry.id) = "")
                    /\ entry.colon
                    /\ isValidGuid(Trim(entry.id))
                    /\ Trim(entry.table) # ""]
        recs  == [i \in 1..Len(boundValue) |->
                    [id    |-> normalizeGuid(Trim(boundValue[i].id)),
                     table |-> ToLowerCase(Trim(boundValue[i].table))]]
    IN FilterSeq(recs, valid)

serializeToBoundValue(records) ==
    [i \in 1..Len(records) |->
        Seg(normalizeGuid(records[i].id), ToLowerCase(records[i].table))]

\* removeRecordById as it would be if it removed the first matching entry only.
removeRecordById_FirstMatchOnly(recordId, records) ==
    LET matches == { i \in 1..Len(records) :
                       normalizeGuid(records[i].id) = normalizeGuid(recordId) }
    IN IF matches = {} THEN records
       ELSE LET first == CHOOSE i \in matches : \A j \in matches : i <= j
            IN SubSeq(records, 1, first - 1) \o SubSeq(records, first + 1, Len(records))

\* removeRecordById as it would be if it compared the identifiers as given.
removeRecordById_NoNormalize(recordId, records) ==
    FilterSeq(records, [i \in 1..Len(records) |-> records[i].id # recordId])

removeRecordById(recordId, records) ==
    FilterSeq(records, [i \in 1..Len(records) |->
                          normalizeGuid(records[i].id) # normalizeGuid(recordId)])

\* `!boundValue || boundValue.trim() === ''`
IsBlank(boundValue) ==
    \/ boundValue = EmptyString
    \/ /\ Len(boundValue) = 1
       /\ ~boundValue[1].colon
       /\ Trim(boundValue[1].id) = ""

(***************************************************************************)
(* The control's fields as one record, so that a handler's sequential      *)
(* assignments compose as function application.                            *)
(***************************************************************************)
Fields ==
    [sel |-> selectedRecords, err |-> errorMessage, bound |-> boundFieldValue,
     names |-> recordNamesValue, init |-> isInitialized, last |-> lastBoundValue,
     busy |-> isLoadingInProgress, ver |-> stateVersion, inflight |-> inflight,
     upd |-> stateUpdater, calls |-> << >>, delivered |-> lastDelivered,
     notify |-> FALSE, dismissed |-> FALSE, pend |-> boundFromPending]

Assign(f) ==
    /\ selectedRecords' = f.sel
    /\ errorMessage' = f.err
    /\ boundFieldValue' = f.bound
    /\ recordNamesValue' = f.names
    /\ isInitialized' = f.init
    /\ lastBoundValue' = f.last
    /\ isLoadingInProgress' = f.busy
    /\ stateVersion' = f.ver
    /\ stateUpdater' = f.upd
    /\ calls' = f.calls
    /\ lastDelivered' = f.delivered
    /\ inflight' = f.inflight
    /\ notified' = f.notify
    /\ dismissed' = f.dismissed
    /\ boundFromPending' = f.pend
    /\ UNCHANGED <<isNavigating, navigations, navTimers, destroyed, utilities>>

\* triggerRerender as it would be if the increment were inside the `if`.
triggerRerender_OnlyWithListener(f) ==
    LET version == f.ver + 1 IN
    IF f.upd # NoListener
    THEN [f EXCEPT !.ver = version,
                   !.calls = Append(@, [to |-> f.upd, version |-> version]),
                   !.delivered = version]
    ELSE f

\* triggerRerender as it would be if it passed the version read before the increment.
triggerRerender_PassesOldVersion(f) ==
    LET version == f.ver + 1 IN
    IF f.upd # NoListener
    THEN [f EXCEPT !.ver = version,
                   !.calls = Append(@, [to |-> f.upd, version |-> f.ver]),
                   !.delivered = f.ver]
    ELSE [f EXCEPT !.ver = version]

\* this.stateVersion++; if (this.stateUpdater) this.stateUpdater(this.stateVersion)
\* The callback (setInternalStateVersion) holds no control state.
triggerRerender(f) ==
    LET version == f.ver + 1 IN
    IF f.upd # NoListener
    THEN [f EXCEPT !.ver = version,
                   !.calls = Append(@, [to |-> f.upd, version |-> version]),
                   !.delivered = version]
    ELSE [f EXCEPT !.ver = version]

\* setStateUpdater, lines 89-91
setStateUpdater(f, updater) == [f EXCEPT !.upd = updater]

\* this.notifyOutputChanged()
notifyOutputChanged(f) == [f EXCEPT !.notify = TRUE]

HasLoading(records) == \E i \in 1..Len(records) : records[i].isLoading

\* this.boundFieldValue = serializeToBoundValue(this.selectedRecords)
writeBoundField(f) ==
    [f EXCEPT !.bound = serializeToBoundValue(f.sel), !.pend = HasLoading(f.sel)]

\* serializeRecordNames as it would be without the filter on isLoading.
serializeRecordNames_KeepsLoading(records) ==
    [i \in 1..Len(records) |-> records[i].name]

\* serializeRecordNames(): the names joined with ';', as the sequence of the names.
serializeRecordNames(records) ==
    IF records = << >> THEN << >>
    ELSE LET kept == FilterSeq(records, [i \in 1..Len(records) |-> ~records[i].isLoading])
         IN [i \in 1..Len(kept) |-> kept[i].name]

\* A suspended loadInitialData call: its closure (loadingValue, parsedRecords) and
\* two history flags: it was started by the stale branch of another call, and a
\* user mutation ran while it was suspended.
Resolution(value, parsed, restart) ==
    [loadingValue |-> value, parsed |-> parsed, restart |-> restart, mutated |-> FALSE]

\* What lastResumed keeps of a call: the value it loaded and its history flags.
NoCall == [loadingValue |-> Null, restart |-> FALSE, mutated |-> FALSE, dropped |-> FALSE]
Resumed(r, dropped) ==
    [loadingValue |-> r.loadingValue, restart |-> r.restart, mutated |-> r.mutated,
     dropped |-> dropped]

Placeholders(parsed) ==
    [i \in 1..Len(parsed) |->
        [id |-> parsed[i].id, table |-> parsed[i].table, name |-> "Loading...", isLoading |-> TRUE]]

\* loadInitialData as it would be if its empty branch stored the value it was
\* given as the snapshot, as the branch after it does.
loadInitialDataBody_SnapshotIsValue(f, boundValue, restart) ==
    IF IsBlank(boundValue) THEN
        triggerRerender([f EXCEPT !.sel = << >>, !.names = << >>, !.bound = EmptyString,
                                  !.pend = FALSE, !.init = TRUE, !.last = boundValue])
    ELSE IF boundValue = f.last /\ f.init THEN f
    ELSE LET f1 == [f EXCEPT !.last = boundValue, !.busy = TRUE, !.err = Undefined]
             parsedRecords == parseBoundValue(boundValue)
         IN IF Len(parsedRecords) = 0 THEN
                LET f2 == triggerRerender([f1 EXCEPT !.sel = << >>, !.names = << >>,
                                                      !.bound = EmptyString, !.pend = FALSE,
                                                      !.busy = FALSE, !.init = TRUE])
                IN triggerRerender([f2 EXCEPT !.busy = FALSE])
            ELSE
                LET f2 == triggerRerender([f1 EXCEPT !.sel = Placeholders(parsedRecords),
                                                      !.init = TRUE])
                IN [f2 EXCEPT !.inflight = Append(@, Resolution(boundValue, parsedRecords, restart))]

\* loadInitialData up to its first suspension (or to its return), lines 151-206;
\* the two early returns inside `try` also run the `finally` block.
loadInitialDataBody(f, boundValue, restart) ==
    IF IsBlank(boundValue) THEN
        triggerRerender([f EXCEPT !.sel = << >>, !.names = << >>, !.bound = EmptyString,
                                  !.pend = FALSE, !.init = TRUE, !.last = EmptyString])
    ELSE IF boundValue = f.last /\ f.init THEN f
    ELSE LET f1 == [f EXCEPT !.last = boundValue, !.busy = TRUE, !.err = Undefined]
             parsedRecords == parseBoundValue(boundValue)
         IN IF Len(parsedRecords) = 0 THEN
                LET f2 == triggerRerender([f1 EXCEPT !.sel = << >>, !.names = << >>,
                                                      !.bound = EmptyString, !.pend = FALSE,
                                                      !.busy = FALSE, !.init = TRUE])
                IN triggerRerender([f2 EXCEPT !.busy = FALSE])
            ELSE
                LET f2 == triggerRerender([f1 EXCEPT !.sel = Placeholders(parsedRecords),
                                                      !.init = TRUE])
                IN [f2 EXCEPT !.inflight = Append(@, Resolution(boundValue, parsedRecords, restart))]

\* loadInitialData: `if (this.isLoadingInProgress) return;` then the body.
loadInitialData(f, boundValue, restart) ==
    IF f.busy THEN f ELSE loadInitialDataBody(f, boundValue, restart)

RemoveAt(s, i) == SubSeq(s, 1, i - 1) \o SubSeq(s, i + 1, Len(s))

\* retrieveRecord / retrieveAllRecords: found[i] says whether the point lookup of
\* parsed[i] produced a record; every failure of a lookup yields null.
retrieveRecord(parsed) ==
    [id |-> normalizeGuid(parsed.id), table |-> ToLowerCase(parsed.table),
     name |-> StoreName(normalizeGuid(parsed.id)), isLoading |-> FALSE]

\* What context.webAPI.retrieveRecord does for one lookup: it resolves with
\* the record, resolves with nothing, or rejects with a not-found error (404,
\* 0x80040217, 'does not exist'), a forbidden error (403, 0x80040220) or
\* another error.
Responses == {"record", "empty", "notFound", "forbidden", "error"}

\* retrieveRecord as it would be if its catch block rethrew what it logs.
retrieveRecordSettles_Rethrows(response) ==
    IF response = "record" THEN "record"
    ELSE IF response = "empty" THEN "null"
    ELSE IF response \in {"notFound", "forbidden"} THEN "null"
    ELSE "throws"

\* retrieveRecord as it would be if it rethrew every rejection.
retrieveRecordSettles_NoCatch(response) ==
    IF response = "record" THEN "record"
    ELSE IF response = "empty" THEN "null"
    ELSE "throws"

\* How retrieveRecord settles, lines 119-160: it returns the record, returns
\* null, or throws.
retrieveRecordSettles(response) ==
    IF response = "record" THEN "record"                          \* `if (result) return {...}`
    ELSE IF response = "empty" THEN "null"                        \* `return null` after the if
    ELSE IF response \in {"notFound", "forbidden"} THEN "null"    \* catch: the silent codes
    ELSE "null"                                                   \* catch: console.error, return null

\* The lookups that produced a record.
Found(responses) ==
    [k \in DOMAIN responses |-> retrieveRecordSettles(responses[k]) = "record"]

\* Promise.all rejects when one of its promises does.
Rejects(responses) ==
    \E k \in DOMAIN responses : retrieveRecordSettles(responses[k]) = "throws"

retrieveAllRecords(parsedRecords, found) ==
    [validRecords |-> FilterSeq([i \in 1..Len(parsedRecords) |-> retrieveRecord(parsedRecords[i])], found),
     hasDeletedRecords |-> \E i \in 1..Len(parsedRecords) : ~found[i]]

\* The `finally` block of loadInitialData.
loadFinally(f) == triggerRerender([f EXCEPT !.busy = FALSE])

\* loadInitialData from the resumption after `await retrieveAllRecords`, lines 206-235.
StaleBranch(f, r) ==
    loadFinally(loadInitialData([f EXCEPT !.busy = FALSE], raw, TRUE))

\* Mutant: the snapshot is not moved to the re-serialized value.
CommitBranch_NoSnapshot(f, r, result) ==
    LET f1 == [f EXCEPT !.sel = result.validRecords,
                        !.names = serializeRecordNames(result.validRecords)]
        f2 == IF result.hasDeletedRecords
              THEN notifyOutputChanged(writeBoundField(f1))
              ELSE f1
    IN loadFinally(f2)

CommitBranch(f, r, result) ==
    LET f1 == [f EXCEPT !.sel = result.validRecords,
                        !.names = serializeRecordNames(result.validRecords)]
        f2 == IF result.hasDeletedRecords
              THEN LET g == writeBoundField(f1)
                   IN notifyOutputChanged([g EXCEPT !.last = g.bound])
              ELSE f1
    IN loadFinally(f2)

\* Mutant: the resumed call does not compare the bound value with loadingValue.
IsStale_Never(r) == FALSE

\* `currentBoundValue !== loadingValue`
IsStale(r) == raw # r.loadingValue

loadInitialDataResumed(f, r, result) ==
    IF IsStale(r) THEN StaleBranch(f, r) ELSE CommitBranch(f, r, result)

\* The `catch` block as it would be if it left the placeholders in place.
loadInitialDataFailed_KeepsSelection(f) ==
    loadFinally([f EXCEPT !.err = Message("Error loading records. Please refresh.", 0, 0)])

\* The `catch` block followed by `finally`.
loadInitialDataFailed(f) ==
    loadFinally([f EXCEPT !.err = Message("Error loading records. Please refresh.", 0, 0),
                          !.sel = << >>, !.names = << >>])

\* A user mutation ran: every suspended resolution has seen one (history).
MarkMutated(f) ==
    [f EXCEPT !.inflight = [i \in 1..Len(@) |-> [@[i] EXCEPT !.mutated = TRUE]]]

\* processLookupResults, lines 371-410.
NewRecords(results) ==
    [i \in 1..Len(results) |->
        [id |-> normalizeGuid(results[i].id), table |-> ToLowerCase(results[i].entityType),
         name |-> results[i].name, isLoading |-> FALSE]]

\* `Too many selections. Only the first ${maxSelections} ... retained (${excessCount} removed).`
TooManyMessage(maxSelections, excessCount) ==
    Message("Too many selections. Only the first n retained (k removed).",
            maxSelections, excessCount)

\* slice as it would be if it kept the last `count` elements.
slice_FromEnd(records, count) ==
    SubSeq(records, Len(records) - count + 1, Len(records))

\* slice as it would be if it kept every element.
slice_Whole(records, count) == records

\* records.slice(0, count)
slice(records, count) ==
    SubSeq(records, 1, IF count < Len(records) THEN count ELSE Len(records))

processLookupResults(f, results, allowMultiSelect, maxSelections) ==
    LET newRecords == NewRecords(results)
        existingIds == { normalizeGuid(f.sel[i].id) : i \in 1..Len(f.sel) }
        uniqueNewRecords ==
            FilterSeq(newRecords, [i \in 1..Len(newRecords) |->
                                      normalizeGuid(newRecords[i].id) \notin existingIds])
        combinedRecords == f.sel \o uniqueNewRecords
        overflow == maxSelections > 0 /\ Len(combinedRecords) > maxSelections
        f1 == IF allowMultiSelect
              THEN IF overflow
                   THEN [f EXCEPT !.sel = slice(combinedRecords, maxSelections),
                                  !.err = TooManyMessage(maxSelections,
                                                         Len(combinedRecords) - maxSelections)]
                   ELSE [f EXCEPT !.sel = combinedRecords]
              ELSE [f EXCEPT !.sel = slice(newRecords, 1)]
        f2 == writeBoundField(f1)
        f3 == [f2 EXCEPT !.names = serializeRecordNames(f2.sel), !.last = f2.bound]
    IN triggerRerender(notifyOutputChanged(f3))

\* handleRemoveRecord, lines 415-423.
\* handleRemoveRecord as it would be without `this.lastBoundValue = this.boundFieldValue`.
handleRemoveRecord_NoSnapshot(f, recordId) ==
    LET f1 == writeBoundField([f EXCEPT !.sel = removeRecordById(recordId, f.sel)])
        f2 == [f1 EXCEPT !.names = serializeRecordNames(f1.sel), !.err = Undefined]
    IN triggerRerender(notifyOutputChanged(f2))

handleRemoveRecord(f, recordId) ==
    LET f1 == writeBoundField([f EXCEPT !.sel = removeRecordById(recordId, f.sel)])
        f2 == [f1 EXCEPT !.names = serializeRecordNames(f1.sel), !.last = f1.bound,
                         !.err = Undefined]
    IN triggerRerender(notifyOutputChanged(f2))

\* Mutant: updateView starts the load whenever the value differs from the
\* snapshot, without looking at isLoadingInProgress.
updateViewLoad_NoBusyGuard(f, boundValue) ==
    IF ~f.init \/ boundValue # f.last
    THEN loadInitialDataBody(f, boundValue, FALSE)
    ELSE f

\* updateView, lines 244-254: the decision to call loadInitialData.
updateViewLoad(f, boundValue) ==
    IF ~f.init \/ (boundValue # f.last /\ ~f.busy)
    THEN loadInitialData(f, boundValue, FALSE)
    ELSE f

(***************************************************************************)
(* Actions                                                                 *)
(***************************************************************************)
\* The utilities when none of them has been called.
NotCalled == [stage |-> "none"]

\* The control after construction, before init() has stored a configuration.
Constructed ==
    /\ raw = EmptyString
    /\ selectedRecords = << >>
    /\ errorMessage = Undefined
    /\ boundFieldValue = EmptyString
    /\ recordNamesValue = << >>
    /\ isInitialized = FALSE
    /\ lastBoundValue = Null
    /\ isLoadingInProgress = FALSE
    /\ iconCacheLoaded = FALSE
    /\ stateVersion = 0
    /\ stateUpdater = NoListener
    /\ isNavigating = FALSE
    /\ navigations = 0
    /\ navTimers = << >>
    /\ destroyed = FALSE
    /\ calls = << >>
    /\ lastDelivered = 0
    /\ inflight = << >>
    /\ iconLoads = 0
    /\ pickerOpen = FALSE
    /\ notified = FALSE
    /\ dismissed = FALSE
    /\ boundFromPending = FALSE
    /\ lastResumed = [outcome |-> "none", call |-> NoCall, failure |-> FALSE]

Init ==
    /\ Constructed
    /\ cfg \in Configs
    /\ retrieval = NotCalled
    /\ codec = NotCalled
    /\ filterCall = NotCalled

\* loadTableIcons up to its suspension, lines 124-137: a call is suspended
\* when the cache is not loaded and lookup tables are configured.
StartsIconLoad == ~iconCacheLoaded /\ cfg.tables

\* The isAtMaxSelections prop updateView computes from the fields, lines 267-272.
isAtMaxSelections ==
    IF cfg.multi /\ cfg.max > 0 THEN Len(selectedRecords) >= cfg.max ELSE FALSE

\* The host calls updateView with the bound value v: an external change, the
\* unchanged value, or the control's own output written back.
UpdateView(v) ==
    /\ stateVersion < MaxVersion
    /\ LET f == updateViewLoad(Fields, v) IN
        /\ Len(f.inflight) <= MaxInFlight
        /\ Assign(f)
    /\ raw' = v
    /\ IF StartsIconLoad
       THEN iconLoads < MaxIconLoads /\ iconLoads' = iconLoads + 1
       ELSE iconLoads' = iconLoads
    /\ UNCHANGED <<cfg, iconCacheLoaded, pickerOpen, lastResumed>>

\* A suspended loadTableIcons resumes, lines 137-139.
IconsLoaded ==
    /\ iconLoads > 0
    /\ iconLoads' = iconLoads - 1
    /\ iconCacheLoaded' = TRUE
    /\ Assign(triggerRerender(Fields))
    /\ UNCHANGED <<raw, cfg, pickerOpen, lastResumed>>

\* A suspended loadInitialData resumes and finds the bound value changed.
ResolutionStale(i) ==
    /\ i \in 1..Len(inflight)
    /\ IsStale(inflight[i])
    /\ Assign(loadInitialDataResumed([Fields EXCEPT !.inflight = RemoveAt(@, i)],
                                     inflight[i], retrieveAllRecords(<< >>, << >>)))
    /\ lastResumed' = [outcome |-> "stale", call |-> Resumed(inflight[i], FALSE),
                       failure |-> FALSE]
    /\ UNCHANGED <<raw, cfg, iconCacheLoaded, iconLoads, pickerOpen>>

\* A suspended loadInitialData resumes with the lookups' results and keeps them.
\* failure (history): a lookup that produced no record had failed with an
\* error other than not-found or forbidden.
ResolutionSettled(i, found, failure) ==
    /\ i \in 1..Len(inflight)
    /\ ~IsStale(inflight[i])
    /\ found \in [1..Len(inflight[i].parsed) -> BOOLEAN]
    /\ Assign(loadInitialDataResumed([Fields EXCEPT !.inflight = RemoveAt(@, i)],
                                     inflight[i], retrieveAllRecords(inflight[i].parsed, found)))
    /\ lastResumed' = [outcome |-> "committed",
                       call |-> Resumed(inflight[i], \E k \in DOMAIN found : ~found[k]),
                       failure |-> failure]
    /\ UNCHANGED <<raw, cfg, iconCacheLoaded, iconLoads, pickerOpen>>

ResolutionCommitted(i, found) ==
    \E failure \in BOOLEAN : ResolutionSettled(i, found, failure)

\* `Maximum of ${maxSelections} selection(s) reached`
MaxReachedMessage(maxSelections) == Message("Maximum of n selections reached", maxSelections, 0)

\* handleLookupClick as it would be without the check of lines 307-313.
LookupClick_NoPreCheck ==
    /\ stateVersion < MaxVersion
    /\ isInitialized
    /\ ~pickerOpen
    /\ IF isLoadingInProgress THEN UNCHANGED <<pickerOpen>> /\ Assign(Fields)
       ELSE IF ~cfg.tables
       THEN /\ Assign(triggerRerender([Fields EXCEPT !.err = Message("No lookup tables configured", 0, 0)]))
            /\ UNCHANGED pickerOpen
       ELSE /\ pickerOpen' = TRUE
            /\ Assign(Fields)
    /\ UNCHANGED <<raw, cfg, iconCacheLoaded, iconLoads, lastResumed>>

\* handleLookupClick up to `await openLookupDialog`, lines 300-351.  The
\* component that calls it exists once updateView has returned it; the dialog
\* is modal, so one call at a time is suspended in it.
LookupClick ==
    /\ stateVersion < MaxVersion
    /\ isInitialized
    /\ ~pickerOpen
    /\ IF isLoadingInProgress THEN UNCHANGED <<pickerOpen>> /\ Assign(Fields)
       ELSE IF cfg.multi /\ cfg.max > 0 /\ Len(selectedRecords) >= cfg.max
       THEN /\ Assign(triggerRerender([Fields EXCEPT !.err = MaxReachedMessage(cfg.max)]))
            /\ UNCHANGED pickerOpen
       ELSE IF ~cfg.tables
       THEN /\ Assign(triggerRerender([Fields EXCEPT !.err = Message("No lookup tables configured", 0, 0)]))
            /\ UNCHANGED pickerOpen
       ELSE /\ pickerOpen' = TRUE
            /\ Assign(Fields)
    /\ UNCHANGED <<raw, cfg, iconCacheLoaded, iconLoads, lastResumed>>

\* openLookupDialog resolves with records, lines 353-356.
PickerReturns(results) ==
    /\ pickerOpen
    /\ pickerOpen' = FALSE
    /\ Assign(processLookupResults(MarkMutated(Fields), results, cfg.multi, cfg.max))
    /\ UNCHANGED <<raw, cfg, iconCacheLoaded, iconLoads, lastResumed>>

\* handleLookupClick as it would be if it treated an empty result as a failure.
PickerCancelled_ShowsError ==
    /\ pickerOpen
    /\ pickerOpen' = FALSE
    /\ Assign(triggerRerender([Fields EXCEPT !.err = Message("Error opening lookup dialog", 0, 0),
                                             !.dismissed = TRUE]))
    /\ UNCHANGED <<raw, cfg, iconCacheLoaded, iconLoads, lastResumed>>

\* openLookupDialog resolves with [] (nothing picked, or the user cancelled).
PickerCancelled ==
    /\ pickerOpen
    /\ pickerOpen' = FALSE
    /\ Assign([Fields EXCEPT !.dismissed = TRUE])
    /\ UNCHANGED <<raw, cfg, iconCacheLoaded, iconLoads, lastResumed>>

\* The catch block of handleLookupClick as it would be if it reset the selection
\* the way the catch block of loadInitialData does.
PickerFails_ClearsSelection ==
    /\ pickerOpen
    /\ pickerOpen' = FALSE
    /\ Assign(triggerRerender([Fields EXCEPT !.err = Message("Error opening lookup dialog", 0, 0),
                                             !.sel = << >>, !.names = << >>]))
    /\ UNCHANGED <<raw, cfg, iconCacheLoaded, iconLoads, lastResumed>>

\* openLookupDialog rejects with an error that is not a cancellation, lines 358-365.
PickerFails ==
    /\ pickerOpen
    /\ pickerOpen' = FALSE
    /\ Assign(triggerRerender([Fields EXCEPT !.err = Message("Error opening lookup dialog", 0, 0)]))
    /\ UNCHANGED <<raw, cfg, iconCacheLoaded, iconLoads, lastResumed>>

\* The delete button of a badge is rendered for entries that are not loading
\* (LookupBadge); clicking it calls handleRemoveRecord(record.id).
RemoveRecord(i) ==
    /\ stateVersion < MaxVersion
    /\ i \in 1..Len(selectedRecords)
    /\ ~selectedRecords[i].isLoading
    /\ Assign(handleRemoveRecord(MarkMutated(Fields), selectedRecords[i].id))
    /\ UNCHANGED <<raw, cfg, iconCacheLoaded, iconLoads, pickerOpen, lastResumed>>

\* A suspended loadInitialData resumes with `await retrieveAllRecords` rejecting:
\* control passes to the `catch` block, lines 227-231, then to `finally`.
ResolutionFails(i) ==
    /\ i \in 1..Len(inflight)
    /\ Assign(loadInitialDataFailed([Fields EXCEPT !.inflight = RemoveAt(@, i)]))
    /\ lastResumed' = [outcome |-> "failed", call |-> Resumed(inflight[i], FALSE),
                       failure |-> TRUE]
    /\ UNCHANGED <<raw, cfg, iconCacheLoaded, iconLoads, pickerOpen>>

\* A suspended loadInitialData whose bound value has not changed resumes
\* once its lookups have settled.
Resolved(i, responses) ==
    /\ i \in 1..Len(inflight)
    /\ responses \in [1..Len(inflight[i].parsed) -> Responses]
    /\ IF Rejects(responses)
       THEN ~IsStale(inflight[i]) /\ ResolutionFails(i)
       ELSE ResolutionSettled(i, Found(responses),
                              \E k \in DOMAIN responses : responses[k] = "error")

\* What the framework and the user do to a live control.
Calls ==
    \/ \E v \in BoundValues \cup {boundFieldValue} : UpdateView(v)
    \/ LookupClick
    \/ \E i \in 1..Len(selectedRecords) : RemoveRecord(i)

\* Suspended calls resuming.
Completions ==
    \/ IconsLoaded
    \/ \E i \in 1..Len(inflight) : ResolutionStale(i)
    \/ \E i \in 1..Len(inflight) : \E responses \in [1..Len(inflight[i].parsed) -> Responses] :
          Resolved(i, responses)
    \/ \E results \in PickResults : PickerReturns(results)
    \/ PickerCancelled
    \/ PickerFails

Next == Calls \/ Completions

Spec == Init /\ [][Next]_vars

(***************************************************************************)
(* The control when every lookup settles: a suspended loadInitialData       *)
(* whose promises have settled is resumed by the event loop, and so is a    *)
(* suspended loadTableIcons.                                                *)
(***************************************************************************)
Resumptions ==
    \/ IconsLoaded
    \/ \E i \in 1..Len(inflight) : ResolutionStale(i)
    \/ \E i \in 1..Len(inflight) : \E found \in [1..Len(inflight[i].parsed) -> BOOLEAN] :
          ResolutionCommitted(i, found)


(***************************************************************************)
(* The control with a resolver whose call as a whole can fail.  The         *)
(* retrieveAllRecords of webApiUtils.ts settles every lookup to a record or *)
(* null and does not reject, so Spec has no such step; loadInitialData      *)
(* provides for it in its `catch` block.                                    *)
(***************************************************************************)
NextFailing ==
    \/ Next
    \/ \E i \in 1..Len(inflight) : ResolutionFails(i)

SpecFailing == Init /\ [][NextFailing]_vars

(***************************************************************************)
(* The whole life of the control: the component registers its callback,    *)
(* the user follows badges to their records, the framework destroys the    *)
(* control.                                                                *)
(***************************************************************************)
Others == <<raw, cfg, selectedRecords, errorMessage, boundFieldValue, recordNamesValue,
            isInitialized, lastBoundValue, isLoadingInProgress, iconCacheLoaded,
            stateVersion, inflight, iconLoads, pickerOpen, lastDelivered,
            boundFromPending, lastResumed, utilities>>

\* MultiTableLookup's effect runs after a render and hands a new closure to
\* onStateUpdaterReady = setStateUpdater.
SetStateUpdater(updater) ==
    /\ isInitialized
    /\ Assign(setStateUpdater(Fields, updater))
    /\ UNCHANGED <<raw, cfg, iconCacheLoaded, iconLoads, pickerOpen, lastResumed>>

\* handleNavigateToRecord as it would be without `if (this.isNavigating) return`.
NavigateClick_NoDebounce(i) ==
    /\ i \in 1..Len(selectedRecords)
    /\ ~selectedRecords[i].isLoading
    /\ isNavigating' = TRUE /\ navigations' = navigations + 1
    /\ calls' = << >>
    /\ notified' = FALSE
    /\ dismissed' = FALSE
    /\ UNCHANGED <<Others, stateUpdater, navTimers, destroyed>>

\* handleNavigateToRecord up to `await openRecordForm`, lines 429-437.  The
\* badge text is clickable for entries that are not loading (LookupBadge).
NavigateClick(i) ==
    /\ i \in 1..Len(selectedRecords)
    /\ ~selectedRecords[i].isLoading
    /\ IF isNavigating
       THEN UNCHANGED <<isNavigating, navigations>>
       ELSE isNavigating' = TRUE /\ navigations' = navigations + 1
    /\ calls' = << >>
    /\ notified' = FALSE
    /\ dismissed' = FALSE
    /\ UNCHANGED <<Others, stateUpdater, navTimers, destroyed>>

\* The resumption as it would be if its catch block surfaced the failure.
NavigationSettles_ShowsError(rejected) ==
    /\ navigations > 0
    /\ navigations' = navigations - 1
    /\ navTimers' = Append(navTimers, [rejected |-> rejected])
    /\ errorMessage' = (IF rejected THEN Message("Error opening record", 0, 0) ELSE errorMessage)
    /\ stateVersion' = (IF rejected THEN stateVersion + 1 ELSE stateVersion)
    /\ calls' = << >>
    /\ notified' = FALSE
    /\ dismissed' = FALSE
    /\ UNCHANGED <<raw, cfg, selectedRecords, boundFieldValue, recordNamesValue,
                   isInitialized, lastBoundValue, isLoadingInProgress, iconCacheLoaded,
                   inflight, iconLoads, pickerOpen, lastDelivered, boundFromPending,
                   lastResumed, stateUpdater, isNavigating, destroyed, utilities>>

\* openRecordForm settles: it resolves, or it rejects and the catch block logs
\* a warning; finally arms the timer, lines 438-446.
NavigationSettles(rejected) ==
    /\ navigations > 0
    /\ navigations' = navigations - 1
    /\ navTimers' = Append(navTimers, [rejected |-> rejected])
    /\ calls' = << >>
    /\ notified' = FALSE
    /\ dismissed' = FALSE
    /\ UNCHANGED <<Others, stateUpdater, isNavigating, destroyed>>

\* The 500 ms timer fires, lines 443-445.
NavigationTimerFires ==
    /\ navTimers # << >>
    /\ navTimers' = Tail(navTimers)
    /\ isNavigating' = FALSE
    /\ calls' = << >>
    /\ notified' = FALSE
    /\ dismissed' = FALSE
    /\ UNCHANGED <<Others, stateUpdater, navigations, destroyed>>

\* destroy() as it would be if it reset every field to its initial value.
Destroy_ResetsVersion ==
    /\ selectedRecords' = << >>
    /\ isLoadingInProgress' = FALSE
    /\ errorMessage' = Undefined
    /\ boundFieldValue' = EmptyString
    /\ recordNamesValue' = << >>
    /\ isInitialized' = FALSE
    /\ lastBoundValue' = Null
    /\ isNavigating' = FALSE
    /\ iconCacheLoaded' = FALSE
    /\ destroyed' = TRUE
    /\ stateVersion' = 0
    /\ inflight' = MarkMutated(Fields).inflight
    /\ calls' = << >>
    /\ notified' = FALSE
    /\ dismissed' = FALSE
    /\ boundFromPending' = FALSE
    /\ UNCHANGED <<raw, cfg, stateUpdater, iconLoads, pickerOpen,
                   navigations, navTimers, lastDelivered, lastResumed, utilities>>

\* destroy(), lines 493-504.  Suspended calls and pending timers stay as they
\* are; stateVersion and stateUpdater are not among the fields it resets.
Destroy ==
    /\ selectedRecords' = << >>
    /\ isLoadingInProgress' = FALSE
    /\ errorMessage' = Undefined
    /\ boundFieldValue' = EmptyString
    /\ recordNamesValue' = << >>
    /\ isInitialized' = FALSE
    /\ lastBoundValue' = Null
    /\ isNavigating' = FALSE
    /\ iconCacheLoaded' = FALSE
    /\ destroyed' = TRUE
    /\ inflight' = MarkMutated(Fields).inflight
    /\ calls' = << >>
    /\ notified' = FALSE
    /\ dismissed' = FALSE
    /\ boundFromPending' = FALSE
    /\ UNCHANGED <<raw, cfg, stateVersion, stateUpdater, iconLoads, pickerOpen,
                   navigations, navTimers, lastDelivered, lastResumed, utilities>>

\* The external values of this life: the empty value, one reference, two.
LifeValues ==
    { EmptyString,
      << Seg("g1", "contact") >>,
      << Seg("g1", "contact"), Seg("g2", "account") >> }

CallsOfLife ==
    \/ \E v \in LifeValues \cup {boundFieldValue} : UpdateView(v)
    \/ LookupClick
    \/ \E i \in 1..Len(selectedRecords) : RemoveRecord(i)

NextLife ==
    \/ ~destroyed /\ CallsOfLife
    \/ Completions
    \/ ~destroyed /\ \E updater \in Listeners : SetStateUpdater(updater)
    \/ ~destroyed /\ \E i \in 1..Len(selectedRecords) : NavigateClick(i)
    \/ \E rejected \in BOOLEAN : NavigationSettles(rejected)
    \/ NavigationTimerFires
    \/ ~destroyed /\ Destroy

\* One configuration: multi-select with a maximum of two.
InitLife == Init /\ cfg = [multi |-> TRUE, max |-> 2, tables |-> TRUE]

SpecLife == InitLife /\ [][NextLife]_vars

\* The control in that configuration, with those values, when every lookup
\* settles and suspended calls are resumed.
NextSettling == CallsOfLife \/ Completions

SpecSettling == InitLife /\ [][NextSettling]_vars /\ WF_vars(Resumptions)

\* The same life without navigation, which touches only isNavigating.
NextBridge ==
    \/ ~destroyed /\ CallsOfLife
    \/ Completions
    \/ ~destroyed /\ \E updater \in Listeners : SetStateUpdater(updater)
    \/ ~destroyed /\ Destroy

SpecBridge == InitLife /\ [][NextBridge]_vars

(***************************************************************************)
(* retrieveAllRecords taken alone: one retrieveRecord promise per parsed    *)
(* record, settling one at a time in any order; Promise.all resolves once   *)
(* all have settled, and the loop partitions its array.                     *)
(***************************************************************************)
MaxLookups == 3      \* parsed records given to one retrieveAllRecords call

\* The parsed records a call is made with: none, or up to MaxLookups
\* references, the same one possibly more than once.
RECURSIVE SeqsUpTo(_, _)
SeqsUpTo(S, n) ==
    IF n = 0 THEN { << >> }
    ELSE LET shorter == SeqsUpTo(S, n - 1)
         IN shorter \cup { Append(q, x) : q \in { t \in shorter : Len(t) = n - 1 }, x \in S }

RetrievalInputs ==
    SeqsUpTo({ [id |-> "g1", table |-> "contact"], [id |-> "g2", table |-> "account"] },
             MaxLookups)

\* Promise.all as it would be if it listed the values in the order in which
\* the promises settled.
PromiseAll_CompletionOrder(parsedRecords, promises, order) ==
    [n \in 1..Len(order) |->
        [parsed |-> parsedRecords[order[n]], hasRecord |-> promises[order[n]] = "record"]]

\* `await Promise.all(retrievalPromises)`: the values in the order of the array
\* of promises, whatever the order in which they settled.
PromiseAll(parsedRecords, promises, order) ==
    [k \in 1..Len(parsedRecords) |->
        [parsed |-> parsedRecords[k], hasRecord |-> promises[k] = "record"]]

\* The loop over the results, lines 200-212.
PartitionResults(results) ==
    LET has == [k \in 1..Len(results) |-> results[k].hasRecord]
        not == [k \in 1..Len(results) |-> ~results[k].hasRecord]
        deleted == FilterSeq(results, not)
    IN [validRecords |-> FilterSeq([k \in 1..Len(results) |-> retrieveRecord(results[k].parsed)], has),
        deletedRecordIds |-> [k \in 1..Len(deleted) |-> deleted[k].parsed.id],
        hasDeletedRecords |-> Len(deleted) > 0]

InitRetrieve ==
    /\ Constructed
    /\ cfg = [multi |-> TRUE, max |-> 0, tables |-> TRUE]
    /\ codec = NotCalled
    /\ filterCall = NotCalled
    /\ \E parsedRecords \in RetrievalInputs :
          retrieval = [stage |-> "pending", parsedRecords |-> parsedRecords,
                       promises |-> [k \in 1..Len(parsedRecords) |-> "pending"],
                       order |-> << >>,
                       result |-> PartitionResults(<< >>)]

\* context.webAPI.retrieveRecord answers lookup k and retrieveRecord settles.
LookupSettles(k, response) ==
    /\ retrieval.stage = "pending"
    /\ k \in 1..Len(retrieval.parsedRecords)
    /\ retrieval.promises[k] = "pending"
    /\ retrieval' = [retrieval EXCEPT !.promises[k] = retrieveRecordSettles(response),
                                      !.order = Append(@, k)]
    /\ UNCHANGED <<control, codec, filterCall>>

\* Every promise has settled (at once when there is none): retrieveAllRecords returns.
AllSettled ==
    /\ retrieval.stage = "pending"
    /\ \A k \in 1..Len(retrieval.parsedRecords) : retrieval.promises[k] # "pending"
    /\ retrieval' = [retrieval EXCEPT
                        !.stage = "returned",
                        !.result = PartitionResults(PromiseAll(retrieval.parsedRecords,
                                                               retrieval.promises,
                                                               retrieval.order))]
    /\ UNCHANGED <<control, codec, filterCall>>

NextRetrieve ==
    \/ \E k \in 1..Len(retrieval.parsedRecords) : \E response \in Responses :
          LookupSettles(k, response)
    \/ AllSettled

SpecRetrieve == InitRetrieve /\ [][NextRetrieve]_vars

(***************************************************************************)
(* parseBoundValue and serializeToBoundValue taken alone, on strings as    *)
(* sequences of characters.  The GUID pattern 8-4-4-4-12 is scaled to two   *)
(* groups of 2 and 1 hexadecimal digits: "a1-b" is a canonical GUID.        *)
(***************************************************************************)
MaxSegments == 2     \* ';'-separated segments of a string given to parseBoundValue

GuidGroups == << 2, 1 >>
HexDigits == { "0", "1", "a", "b", "A", "B" }

\* String.prototype.toLowerCase, character by character.
LowerChar(c) ==
    CASE c = "A" -> "a" [] c = "B" -> "b" [] c = "T" -> "t" [] c = "U" -> "u"
      [] c = "X" -> "x" [] OTHER -> c
LowerText(str) == [i \in 1..Len(str) |-> LowerChar(str[i])]

\* String.prototype.trim
RECURSIVE TrimStart(_)
TrimStart(str) ==
    IF str # << >> /\ Head(str) = " " THEN TrimStart(Tail(str)) ELSE str
RECURSIVE TrimEnd(_)
TrimEnd(str) ==
    IF str # << >> /\ str[Len(str)] = " " THEN TrimEnd(SubSeq(str, 1, Len(str) - 1)) ELSE str
TrimText(str) == TrimEnd(TrimStart(str))

\* String.prototype.indexOf / lastIndexOf of one character, 1-based; 0: absent.
IndexOf(str, c) ==
    IF \E i \in 1..Len(str) : str[i] = c
    THEN CHOOSE i \in 1..Len(str) : str[i] = c /\ \A j \in 1..(i - 1) : str[j] # c
    ELSE 0
LastIndexOf(str, c) ==
    IF \E i \in 1..Len(str) : str[i] = c
    THEN CHOOSE i \in 1..Len(str) : str[i] = c /\ \A j \in (i + 1)..Len(str) : str[j] # c
    ELSE 0

\* String.prototype.split on one character: the empty string yields [''].
RECURSIVE SplitText(_, _)
SplitText(str, sep) ==
    LET at == IndexOf(str, sep) IN
    IF at = 0 THEN << str >>
    ELSE << SubSeq(str, 1, at - 1) >> \o SplitText(SubSeq(str, at + 1, Len(str)), sep)

\* Array.prototype.join
RECURSIVE JoinText(_, _)
JoinText(strs, sep) ==
    IF strs = << >> THEN << >>
    ELSE IF Len(strs) = 1 THEN strs[1]
    ELSE strs[1] \o << sep >> \o JoinText(Tail(strs), sep)

\* value.replace(/[{}]/g, '')
StripBraces(str) == SelectSeq(str, LAMBDA c : c \notin { "{", "}" })

\* guidRegex.test(cleanGuid): groups of hexadecimal digits separated by '-'.
MatchesGuidRegex(str) ==
    /\ Len(str) = GuidGroups[1] + 1 + GuidGroups[2]
    /\ \A i \in 1..Len(str) :
          IF i = GuidGroups[1] + 1 THEN str[i] = "-" ELSE str[i] \in HexDigits

IsValidGuidText(value) ==
    IF value = << >> THEN FALSE ELSE MatchesGuidRegex(StripBraces(value))

NormalizeGuidText(guid) ==
    IF guid = << >> THEN << >> ELSE LowerText(StripBraces(guid))

\* What the loop of parseBoundValue makes of one entry: a record or nothing.
ParseEntry(entry, colonIndex) ==
    IF colonIndex = 0 THEN << >>
    ELSE LET id == TrimText(SubSeq(entry, 1, colonIndex - 1))
             table == TrimText(SubSeq(entry, colonIndex + 1, Len(entry)))
         IN IF IsValidGuidText(id) /\ Len(table) > 0
            THEN << [id |-> NormalizeGuidText(id), table |-> LowerText(table)] >>
            ELSE << >>

RECURSIVE Flatten(_)
Flatten(lists) == IF lists = << >> THEN << >> ELSE Head(lists) \o Flatten(Tail(lists))

\* parseBoundValue as it would be if it split an entry at its last ':'.
ParseBoundValueText_LastColon(boundValue) ==
    IF boundValue = << >> \/ TrimText(boundValue) = << >> THEN << >>
    ELSE LET entries == SelectSeq(SplitText(boundValue, ";"), LAMBDA entry : TrimText(entry) # << >>)
         IN Flatten([k \in 1..Len(entries) |->
                        ParseEntry(entries[k], LastIndexOf(entries[k], ":"))])

\* parseBoundValue, lines 40-65.
ParseBoundValueText(boundValue) ==
    IF boundValue = << >> \/ TrimText(boundValue) = << >> THEN << >>
    ELSE LET entries == SelectSeq(SplitText(boundValue, ";"), LAMBDA entry : TrimText(entry) # << >>)
         IN Flatten([k \in 1..Len(entries) |->
                        ParseEntry(entries[k], IndexOf(entries[k], ":"))])

\* serializeToBoundValue as it would be if it joined the entries with ','.
SerializeToBoundValueText_CommaJoined(records) ==
    IF records = << >> THEN << >>
    ELSE JoinText([k \in 1..Len(records) |->
                     NormalizeGuidText(records[k].id) \o << ":" >> \o LowerText(records[k].table)],
                  ",")

\* serializeToBoundValue, lines 72-80.
SerializeToBoundValueText(records) ==
    IF records = << >> THEN << >>
    ELSE JoinText([k \in 1..Len(records) |->
                     NormalizeGuidText(records[k].id) \o << ":" >> \o LowerText(records[k].table)],
                  ";")

\* The segments the strings are made of: well-formed ones, canonical or not,
\* and malformed ones.
Segments ==
    { << "a", "1", "-", "b", ":", "t" >>,                       \* a1-b:t
      << "{", "A", "1", "-", "B", "}", ":", "T" >>,             \* {A1-B}:T
      << "b", "0", "-", "a", ":", "u" >>,                       \* b0-a:u
      << " ", "a", "1", "-", "b", " ", ":", " ", "t", " " >>,   \* whitespace around both parts
      << "a", "1", "-", "b", ":", "t", ":", "u" >>,             \* a second ':'
      << "a", "{", "1", "}", "-", "b", ":", "t" >>,             \* braces inside the identifier
      << "a", "1", "-", "b" >>,                                 \* no ':'
      << "a", "1", "-", "b", ":" >>,                            \* no type
      << "a", "1", "-", "b", ":", " " >>,                       \* blank type
      << "x", "1", "-", "b", ":", "t" >>,                       \* not hexadecimal
      << "a", "1", "b", ":", "t" >>,                            \* no '-'
      << ":", "t" >>,                                           \* no identifier
      << >>,                                                    \* empty segment
      << " " >> }                                               \* blank segment

InitCodec ==
    /\ Constructed
    /\ cfg = [multi |-> TRUE, max |-> 0, tables |-> TRUE]
    /\ retrieval = NotCalled
    /\ filterCall = NotCalled
    /\ \E segments \in SeqsUpTo(Segments, MaxSegments) :
          codec = [stage |-> "given", segments |-> segments,
                   boundValue |-> JoinText(segments, ";"),
                   parsed |-> << >>, serialized |-> << >>, reparsed |-> << >>]

\* parseBoundValue(boundValue)
Parse ==
    /\ codec.stage = "given"
    /\ codec' = [codec EXCEPT !.stage = "parsed",
                              !.parsed = ParseBoundValueText(codec.boundValue)]
    /\ UNCHANGED <<control, retrieval, filterCall>>

\* serializeToBoundValue of what was parsed
Serialize ==
    /\ codec.stage = "parsed"
    /\ codec' = [codec EXCEPT !.stage = "serialized",
                              !.serialized = SerializeToBoundValueText(codec.parsed)]
    /\ UNCHANGED <<control, retrieval, filterCall>>

\* parseBoundValue of the serialization
Reparse ==
    /\ codec.stage = "serialized"
    /\ codec' = [codec EXCEPT !.stage = "reparsed",
                              !.reparsed = ParseBoundValueText(codec.serialized)]
    /\ UNCHANGED <<control, retrieval, filterCall>>

NextCodec == Parse \/ Serialize \/ Reparse

SpecCodec == InitCodec /\ [][NextCodec]_vars

(***************************************************************************)
(* generateExclusionFilter taken alone.                                    *)
(***************************************************************************)
MaxSelected == 2     \* entries of the selection given to generateExclusionFilter

\* Entries as loadInitialData and processLookupResults make them: resolved
\* ones, a placeholder, and one whose identifier is not in canonical form.
SelectionEntries ==
    { [id |-> "g1", table |-> "contact", name |-> "Jane Doe", isLoading |-> FALSE],
      [id |-> "g1", table |-> "contact", name |-> "Loading...", isLoading |-> TRUE],
      [id |-> "{G1}", table |-> "Contact", name |-> "Jane Doe", isLoading |-> FALSE],
      [id |-> "g2", table |-> "account", name |-> "Acme", isLoading |-> FALSE],
      [id |-> "g3", table |-> "contact", name |-> "Bob", isLoading |-> FALSE] }

TableNames == { "contact", "Contact", "account" }

\* getPrimaryKeyField: `${tableName.toLowerCase()}id`
getPrimaryKeyField(tableName) == [table |-> ToLowerCase(tableName), suffix |-> "id"]

\* The ILookupFilter: the attribute and the <value> elements of the not-in
\* condition of filterXml, and entityLogicalName.
NoFilter == [isNull |-> TRUE, attribute |-> getPrimaryKeyField(""), values |-> << >>,
             entityLogicalName |-> ""]

\* generateExclusionFilter, lines 171-199.
generateExclusionFilter(tableName, records) ==
    LET ofTable == FilterSeq(records, [i \in 1..Len(records) |->
                                         ToLowerCase(records[i].table) = ToLowerCase(tableName)])
        selectedIdsForTable == [i \in 1..Len(ofTable) |-> normalizeGuid(ofTable[i].id)]
    IN IF Len(selectedIdsForTable) = 0 THEN NoFilter
       ELSE [isNull |-> FALSE, attribute |-> getPrimaryKeyField(tableName),
             values |-> selectedIdsForTable,
             entityLogicalName |-> ToLowerCase(tableName)]

InitFilter ==
    /\ Constructed
    /\ cfg = [multi |-> TRUE, max |-> 0, tables |-> TRUE]
    /\ retrieval = NotCalled
    /\ codec = NotCalled
    /\ \E tableName \in TableNames : \E records \in SeqsUpTo(SelectionEntries, MaxSelected) :
          filterCall = [stage |-> "called", tableName |-> tableName,
                        selectedRecords |-> records, result |-> NoFilter]

GenerateExclusionFilter ==
    /\ filterCall.stage = "called"
    /\ filterCall' = [filterCall EXCEPT
                        !.stage = "returned",
                        !.result = generateExclusionFilter(filterCall.tableName,
                                                           filterCall.selectedRecords)]
    /\ UNCHANGED <<control, retrieval, codec>>

NextFilter == GenerateExclusionFilter

SpecFilter == InitFilter /\ [][NextFilter]_vars

(***************************************************************************)
(* Vocabulary of the properties                                            *)
(***************************************************************************)
Refs(records) == [i \in 1..Len(records) |-> [id |-> records[i].id, table |-> records[i].table]]

\* records is what resolving the bound value yields: no placeholder, and the
\* identifier/type pairs are those of the value's valid segments, in order,
\* without the ones not found.
IsResolutionOf(records, boundValue) ==
    /\ ~HasLoading(records)
    /\ \E found \in [1..Len(parseBoundValue(boundValue)) -> BOOLEAN] :
          Refs(records) = FilterSeq(parseBoundValue(boundValue), found)

SomeResolutionCommitted ==
    \E i \in 1..Len(inflight) : \E found \in [1..Len(inflight[i].parsed) -> BOOLEAN] :
        ResolutionCommitted(i, found)

SomeResolutionStale == \E i \in 1..Len(inflight) : ResolutionStale(i)

SomeUpdateView == \E v \in BoundValues \cup {boundFieldValue} : UpdateView(v)

\* C1: whatever a completing resolution commits to the selection is a
\* resolution of the external value that is current at that completion.
C1_CommitIsOfCurrentValue ==
    [][SomeResolutionCommitted => IsResolutionOf(selectedRecords', raw')]_vars

\* C1 witness: a resolution restarted because the value changed in flight has
\* committed entries, and the selection is a resolution of the current value.
C1_Witness ==
    /\ lastResumed.outcome = "committed"
    /\ lastResumed.call.restart
    /\ lastResumed.call.loadingValue = raw
    /\ selectedRecords # << >>
    /\ ~HasLoading(selectedRecords)

\* C2: a resolution that was in flight when a user mutation ran never commits
\* its results over the mutation's selection.
C2_MutationWins ==
    ~(lastResumed.outcome = "committed" /\ lastResumed.call.mutated)

\* C3: at most one resolution is in flight.
C3_AtMostOneInFlight == Len(inflight) <= 1

\* C4: while a restarted resolution is in flight, Busy is true.
C4_BusyDuringRestart ==
    \A i \in 1..Len(inflight) : inflight[i].restart => isLoadingInProgress

\* C5: the bound output was never serialized from a Pending entry.
C5_NoPendingInOutput == ~boundFromPending

\* C6: a call of updateView that arrives while Busy is true changes nothing of
\* the reconciler state and starts no resolution.
C6_ReconcileWhileBusyIsNoOp ==
    [][(SomeUpdateView /\ isLoadingInProgress) =>
          UNCHANGED <<selectedRecords, lastBoundValue, errorMessage, isLoadingInProgress,
                      stateVersion, inflight, boundFieldValue, recordNamesValue>>]_vars

\* C6 witness: Busy is true and updateView has presented a value that differs
\* from the one being loaded and from the snapshot.
C6_Witness ==
    /\ isLoadingInProgress
    /\ Len(inflight) = 1
    /\ raw # inflight[1].loadingValue
    /\ raw # lastBoundValue
    /\ lastBoundValue = inflight[1].loadingValue

\* C7: while a resolution is in flight an external change starts no resolution
\* (no intermediate value is ever resolved), and the completion of a resolution
\* whose value changed in flight starts a single resolution, for the value
\* current at that completion (none when that value leaves nothing to resolve).
C7_Coalescing ==
    [][/\ (SomeUpdateView /\ inflight # << >>) => inflight' = inflight
       /\ SomeResolutionStale =>
             /\ Len(inflight') <= Len(inflight)
             /\ Len(inflight') = Len(inflight) =>
                    inflight'[Len(inflight')].loadingValue = raw]_vars

\* C8: a resolution that is not stale and found some records missing leaves the
\* resolved entries as the selection, writes their serialization to the bound
\* output and to the snapshot, notifies the host and sets no error.
SerializedPairs(records) ==
    [i \in 1..Len(records) |-> [colon |-> TRUE, id |-> records[i].id, table |-> records[i].table]]

C8_NotFoundShrinksSilently ==
    [][\A i \in 1..Len(inflight) : \A found \in [1..Len(inflight[i].parsed) -> BOOLEAN] :
          (ResolutionCommitted(i, found) /\ (\E k \in DOMAIN found : ~found[k])) =>
              /\ ~HasLoading(selectedRecords')
              /\ Refs(selectedRecords') = FilterSeq(parseBoundValue(raw), found)
              /\ boundFieldValue' = SerializedPairs(selectedRecords')
              /\ lastBoundValue' = boundFieldValue'
              /\ notified'
              /\ errorMessage' = errorMessage]_vars

\* C8 witness: a committed resolution dropped a record, one entry remains, the
\* bound output lists it and no error is set.
C8_Witness ==
    /\ lastResumed.outcome = "committed"
    /\ lastResumed.call.dropped
    /\ Len(selectedRecords) = 1
    /\ ~HasLoading(selectedRecords)
    /\ boundFieldValue = SerializedPairs(selectedRecords)
    /\ lastBoundValue = boundFieldValue
    /\ raw = lastResumed.call.loadingValue
    /\ notified
    /\ errorMessage = Undefined

\* C9: no two non-pending entries of the selection have the same identifier.
C9_UniqueIdentifiers ==
    \A i, j \in 1..Len(selectedRecords) :
        (i # j /\ ~selectedRecords[i].isLoading /\ ~selectedRecords[j].isLoading) =>
            normalizeGuid(selectedRecords[i].id) # normalizeGuid(selectedRecords[j].id)

\* C10: every transition that changes the observable reconciler state
\* increases the version by exactly 1.
C10_VersionStepsByOne ==
    [][<<selectedRecords, errorMessage, isLoadingInProgress, lastBoundValue,
         boundFieldValue, stateVersion>>' #
       <<selectedRecords, errorMessage, isLoadingInProgress, lastBoundValue,
         boundFieldValue, stateVersion>>
          => stateVersion' = stateVersion + 1]_vars

\* C11: stateVersion starts at 0 and no step of the control's life (updateView,
\* a resolution completing, an add, a remove, a picker request, a navigation,
\* destroy) lowers it.
C11_VersionNeverDecreases ==
    /\ stateVersion = 0
    /\ [][stateVersion' >= stateVersion]_vars

\* A destroyed control that had rendered, resolved and navigated, and whose
\* version is still what it had reached.
C11_Witness ==
    /\ destroyed
    /\ stateVersion >= 3
    /\ lastResumed.outcome = "committed"
    /\ navigations + Len(navTimers) > 0
    /\ selectedRecords = << >>

\* C12: in every step the callback invocations are exactly one per version bump,
\* in order, each made to the callback registered at that time (the one
\* registered last) and each carrying the version just reached; every value
\* delivered is above every value delivered before.  With no callback
\* registered nothing is invoked.
C12_RenderBridge ==
    [][LET bumps == stateVersion' - stateVersion IN
       /\ bumps >= 0
       /\ Len(calls') = (IF stateUpdater = NoListener THEN 0 ELSE bumps)
       /\ \A k \in 1..Len(calls') :
             /\ calls'[k].to = stateUpdater
             /\ calls'[k].version = stateVersion + k
             /\ calls'[k].version > lastDelivered
       /\ \A updater \in Listeners : SetStateUpdater(updater) => stateUpdater' = updater
       /\ lastDelivered' = (IF calls' = << >> THEN lastDelivered ELSE stateVersion')]_vars

\* The second callback registered has replaced the first, and a handler that
\* bumped the version twice has invoked it twice.
C12_Witness ==
    /\ stateUpdater = 2
    /\ Len(calls) = 2
    /\ calls[1].to = 2 /\ calls[2].to = 2
    /\ calls[2].version = stateVersion
    /\ lastDelivered = stateVersion

\* The reconciler's part of a handler's outcome: selection, snapshot, Busy,
\* error, version, the outputs and whether the host was notified, and the
\* resolutions left in flight.
Reconciler(f) ==
    [sel |-> f.sel, err |-> f.err, bound |-> f.bound, names |-> f.names, init |-> f.init,
     last |-> f.last, busy |-> f.busy, ver |-> f.ver, inflight |-> f.inflight,
     notify |-> f.notify]

WithoutListener(f) == [f EXCEPT !.upd = NoListener]

\* C13: from every reachable state, every operation (updateView with any value,
\* a resolution resuming with any lookup results, an add of any picked list, a
\* remove of any entry, a bare re-render as made by the icon load and by the
\* picker's error paths) leaves the same reconciler state whether a callback
\* is registered or not.
C13_ListenerHasNoInfluence ==
    LET f == Fields
        g == WithoutListener(Fields)
    IN
    /\ \A v \in BoundValues \cup {boundFieldValue} :
          Reconciler(updateViewLoad(f, v)) = Reconciler(updateViewLoad(g, v))
    /\ \A i \in 1..Len(inflight) : \A found \in [1..Len(inflight[i].parsed) -> BOOLEAN] :
          LET result == retrieveAllRecords(inflight[i].parsed, found) IN
          Reconciler(loadInitialDataResumed([f EXCEPT !.inflight = RemoveAt(@, i)], inflight[i], result))
            = Reconciler(loadInitialDataResumed([g EXCEPT !.inflight = RemoveAt(@, i)], inflight[i], result))
    /\ \A results \in PickResults :
          Reconciler(processLookupResults(f, results, cfg.multi, cfg.max))
            = Reconciler(processLookupResults(g, results, cfg.multi, cfg.max))
    /\ \A i \in 1..Len(selectedRecords) :
          Reconciler(handleRemoveRecord(f, selectedRecords[i].id))
            = Reconciler(handleRemoveRecord(g, selectedRecords[i].id))
    /\ Reconciler(triggerRerender(f)) = Reconciler(triggerRerender(g))

\* A callback is registered, an add or a remove has just invoked it, and a
\* resolution is in flight: every kind of operation can act on this state.
C13_Witness ==
    /\ stateUpdater = 1
    /\ calls # << >>
    /\ notified
    /\ selectedRecords # << >>
    /\ inflight # << >>

\* The selection followed by the picked records not already selected, in order.
Combined(existing, results) ==
    LET ids == { normalizeGuid(existing[i].id) : i \in 1..Len(existing) }
        picked == [i \in 1..Len(results) |->
                     [id |-> normalizeGuid(results[i].id),
                      table |-> ToLowerCase(results[i].entityType),
                      name |-> results[i].name, isLoading |-> FALSE]]
    IN existing \o SelectSeq(picked, LAMBDA r : r.id \notin ids)

\* An add of these results is cut to the maximum.
Overflows(results) ==
    cfg.multi /\ cfg.max > 0 /\ Len(Combined(selectedRecords, results)) > cfg.max

\* C14: an add that is not truncated, and every remove, leaves errorMessage unset
\* whatever it was before.
C14_MutationClearsError ==
    [][(\/ \E results \in PickResults : PickerReturns(results) /\ ~Overflows(results)
        \/ \E i \in 1..Len(selectedRecords) : RemoveRecord(i))
       => errorMessage' = Undefined]_vars

NonPendingCount(records) == Cardinality({ i \in 1..Len(records) : ~records[i].isLoading })

\* C16: in multi-select mode with a maximum, a picker request made while the
\* selection holds the maximum number of resolved entries does not open the
\* picker, leaves the selection and the outputs as they are without notifying
\* the host, and sets the message that carries the maximum.
C16_RejectedAtMax ==
    [][(LookupClick /\ cfg.multi /\ cfg.max > 0
          /\ NonPendingCount(selectedRecords) >= cfg.max) =>
         /\ ~pickerOpen'
         /\ UNCHANGED <<selectedRecords, boundFieldValue, recordNamesValue, lastBoundValue>>
         /\ ~notified'
         /\ errorMessage'.text = "Maximum of n selections reached"
         /\ errorMessage'.n = cfg.max]_vars

\* The request has been rejected with two resolved entries selected.
C16_Witness ==
    /\ cfg.max = 2
    /\ errorMessage = MaxReachedMessage(2)
    /\ NonPendingCount(selectedRecords) = 2
    /\ ~pickerOpen
    /\ ~notified
    /\ ~isLoadingInProgress

\* C17: both comparisons against the maximum count the entries that are not
\* placeholders: the prop updateView returns is true exactly when that count
\* has reached the maximum, and a picker request on an idle control is
\* rejected with the maximum message exactly in that case.
C17_CountsNonPending ==
    [][/\ SomeUpdateView =>
            (isAtMaxSelections' <=>
               (cfg.multi /\ cfg.max > 0 /\ NonPendingCount(selectedRecords') >= cfg.max))
       /\ (LookupClick /\ ~isLoadingInProgress /\ cfg.multi /\ cfg.max > 0) =>
            ((stateVersion' # stateVersion /\ errorMessage' = MaxReachedMessage(cfg.max)) <=>
               NonPendingCount(selectedRecords) >= cfg.max)]_vars

\* C18: in single-select mode an add of any result list leaves a selection of
\* exactly one entry, made from the first element of the list (identifier
\* normalized, table lower-cased, the picked name, not loading), whatever was
\* selected before.
C18_SingleSelectKeepsFirst ==
    [][\A results \in PickResults :
         (PickerReturns(results) /\ ~cfg.multi) =>
           /\ Len(selectedRecords') = 1
           /\ selectedRecords'[1].id = normalizeGuid(results[1].id)
           /\ selectedRecords'[1].table = ToLowerCase(results[1].entityType)
           /\ selectedRecords'[1].name = results[1].name
           /\ ~selectedRecords'[1].isLoading]_vars

\* Single-select, after a bound value had been resolved: the host has just been
\* notified of a selection of g3 alone, a record only the picker supplies.
C18_Witness ==
    /\ ~cfg.multi
    /\ notified
    /\ Len(selectedRecords) = 1
    /\ selectedRecords[1].id = "g3"
    /\ lastResumed.outcome = "committed"
    /\ ~lastResumed.call.dropped

\* C19: after a remove, removing the same identifier again changes neither the
\* selection, nor the bound output, nor the snapshot, nor the error message,
\* which stays unset.
C19_RemoveIsIdempotent ==
    [][\A i \in 1..Len(selectedRecords) :
         RemoveRecord(i) =>
           LET again == handleRemoveRecord(Fields', selectedRecords[i].id) IN
           /\ again.sel = selectedRecords'
           /\ again.bound = boundFieldValue'
           /\ again.last = lastBoundValue'
           /\ again.err = errorMessage'
           /\ again.err = Undefined]_vars

\* The only entry, a picked one, has just been removed (an add never leaves
\* the selection empty and no resolution has resumed).
C19_Witness ==
    /\ notified
    /\ selectedRecords = << >>
    /\ boundFieldValue = EmptyString
    /\ lastResumed.outcome = "none"
    /\ stateVersion >= 3

\* Identifiers as a caller may write them.
RemoveIds == {"g1", "g2", "g3", "{G1}"}

\* What is left of a selection without the entries of this identifier.
Without(records, id) == SelectSeq(records, LAMBDA r : normalizeGuid(r.id) # normalizeGuid(id))

\* C20: handleRemoveRecord(id), applied to any reachable state with any
\* identifier (present or absent, canonical or in braces and upper case),
\* leaves the entries whose normalized identifier differs from normalize(id),
\* in their order, sets the bound output and the snapshot to the serialization
\* of what is left, unsets the error message and bumps the version by one; with
\* an absent identifier the selection is what it was.  The removes the user
\* makes are such applications.
C20_RemoveExactlyMatching ==
    [][/\ \A id \in RemoveIds :
            LET after == handleRemoveRecord(Fields', id)
                left == Without(selectedRecords', id)
            IN
            /\ after.sel = left
            /\ after.bound = [k \in 1..Len(left) |->
                                Seg(normalizeGuid(left[k].id), ToLowerCase(left[k].table))]
            /\ after.last = after.bound
            /\ after.err = Undefined
            /\ after.ver = stateVersion' + 1
            /\ (\A k \in 1..Len(selectedRecords') :
                   normalizeGuid(selectedRecords'[k].id) # normalizeGuid(id))
                 => after.sel = selectedRecords'
       /\ \A i \in 1..Len(selectedRecords) :
            RemoveRecord(i) =>
              /\ selectedRecords' = Without(selectedRecords, selectedRecords[i].id)
              /\ boundFieldValue' = [k \in 1..Len(selectedRecords') |->
                                       Seg(normalizeGuid(selectedRecords'[k].id),
                                           ToLowerCase(selectedRecords'[k].table))]
              /\ lastBoundValue' = boundFieldValue'
              /\ errorMessage' = Undefined
              /\ stateVersion' = stateVersion + 1]_vars

\* After a resolution that found every record, the entries have been removed
\* until none is left.
C20_Witness ==
    /\ notified
    /\ selectedRecords = << >>
    /\ lastBoundValue = EmptyString
    /\ errorMessage = Undefined
    /\ lastResumed.outcome = "committed"
    /\ ~lastResumed.call.dropped

\* An add or a remove.
SomeMutation ==
    \/ \E results \in PickResults : PickerReturns(results)
    \/ \E i \in 1..Len(selectedRecords) : RemoveRecord(i)

\* C21: an add or a remove leaves the snapshot equal to the bound output it has
\* just written; and an updateView that presents the control's own output, when
\* the handler that ran last has notified the host of it, starts no resolution
\* and leaves the selection, Busy, the snapshot and the version as they are.
C21_OwnWriteIsNotAChange ==
    [][/\ SomeMutation => (lastBoundValue' = boundFieldValue' /\ notified')
       /\ (notified /\ UpdateView(boundFieldValue)) =>
            UNCHANGED <<selectedRecords, stateVersion, inflight, isLoadingInProgress,
                        lastBoundValue, errorMessage>>]_vars

\* The host has presented 'g3:contact', a value only the control's own add
\* produces, and no resolution has ever been started for it.
C21_Witness ==
    /\ raw = << Seg("g3", "contact") >>
    /\ boundFieldValue = raw
    /\ lastBoundValue = raw
    /\ ~notified
    /\ inflight = << >>
    /\ lastResumed.outcome = "none"
    /\ Len(selectedRecords) = 1 /\ ~selectedRecords[1].isLoading

\* C22: when the resolution call as a whole fails, the resumed loadInitialData
\* leaves the selection empty, the error message set to the generic load
\* error, Busy false, and the version bumped.
C22_FailureEndsInError ==
    [][\A i \in 1..Len(inflight) :
         ResolutionFails(i) =>
           /\ selectedRecords' = << >>
           /\ recordNamesValue' = << >>
           /\ errorMessage'.text = "Error loading records. Please refresh."
           /\ ~isLoadingInProgress'
           /\ stateVersion' = stateVersion + 1]_vars

\* The resolution of a two-reference value has failed.
C22_Witness ==
    /\ lastResumed.outcome = "failed"
    /\ Len(parseBoundValue(lastResumed.call.loadingValue)) = 2
    /\ selectedRecords = << >>
    /\ errorMessage = Message("Error loading records. Please refresh.", 0, 0)
    /\ ~isLoadingInProgress

\* The records of the lookups that answered with a record, in parse order.
Answered(parsed, responses) ==
    LET ks == { k \in 1..Len(parsed) : responses[k] = "record" }
        Pos(n) == CHOOSE k \in ks : Cardinality({ j \in ks : j < k }) = n - 1
    IN [n \in 1..Cardinality(ks) |-> parsed[Pos(n)]]

\* C23: a resolution in which a lookup fails with an error other than not-found
\* or forbidden commits: the selection is the resolved entries of the lookups
\* that answered with a record, the failed one is absent as if not found (its
\* reference leaves the bound output and the host is notified), the error
\* message stays as it was, which is not the load error, and Busy is cleared.
C23_LookupErrorIsNotFound ==
    [][\A i \in 1..Len(inflight) : \A responses \in [1..Len(inflight[i].parsed) -> Responses] :
         ((\E k \in DOMAIN responses : responses[k] = "error") /\ lastResumed'.failure
            /\ Resolved(i, responses)) =>
           /\ Refs(selectedRecords') = Answered(inflight[i].parsed, responses)
           /\ ~HasLoading(selectedRecords')
           /\ boundFieldValue' = SerializedPairs(selectedRecords')
           /\ notified'
           /\ errorMessage' = errorMessage
           /\ errorMessage'.text # "Error loading records. Please refresh."
           /\ ~isLoadingInProgress']_vars

\* Of two lookups one has failed with another error; the other entry is
\* committed and no error is shown.
C23_Witness ==
    /\ lastResumed.outcome = "committed"
    /\ lastResumed.failure
    /\ Len(parseBoundValue(lastResumed.call.loadingValue)) = 2
    /\ Len(selectedRecords) = 1
    /\ ~HasLoading(selectedRecords)
    /\ errorMessage = Undefined
    /\ ~isLoadingInProgress

\* C24: a lookup failure other than not-found and forbidden is not turned into
\* "no record": it reaches the caller as an error, so a resumption one of whose
\* lookups failed that way passes to the catch block of loadInitialData.
C24_OtherFailuresPropagate ==
    [][\A i \in 1..Len(inflight) : \A responses \in [1..Len(inflight[i].parsed) -> Responses] :
         ((\E k \in DOMAIN responses : responses[k] = "error") /\ lastResumed'.failure
            /\ Resolved(i, responses)) =>
           /\ \A k \in DOMAIN responses :
                 responses[k] = "error" => retrieveRecordSettles(responses[k]) = "throws"
           /\ lastResumed'.outcome = "failed"
           /\ errorMessage'.text = "Error loading records. Please refresh."]_vars

\* C25: a picker call that ends with no records (cancelled, or nothing picked)
\* changes nothing and notifies nobody, and neither did the request that
\* opened the picker: selection, outputs, snapshot, error message and version
\* are what they were.
C25_CancelChangesNothing ==
    [][(PickerCancelled \/ (LookupClick /\ pickerOpen')) =>
         /\ UNCHANGED <<selectedRecords, boundFieldValue, recordNamesValue, lastBoundValue,
                        errorMessage, stateVersion, isLoadingInProgress, inflight>>
         /\ ~notified'
         /\ calls' = << >>]_vars

\* The picker has just been dismissed over a selection of two resolved entries.
C25_Witness ==
    /\ dismissed
    /\ ~pickerOpen
    /\ Len(selectedRecords) = 2
    /\ ~HasLoading(selectedRecords)
    /\ errorMessage = Undefined

\* C26: when the picker fails with an error that is not a cancellation, the
\* error message becomes the generic lookup-dialog error and the selection,
\* the outputs and the snapshot stay as they were; the host is not notified.
C26_PickerFailureSetsError ==
    [][PickerFails =>
         /\ errorMessage' = Message("Error opening lookup dialog", 0, 0)
         /\ UNCHANGED <<selectedRecords, boundFieldValue, recordNamesValue, lastBoundValue>>
         /\ ~notified'
         /\ stateVersion' = stateVersion + 1]_vars

\* The picker has failed over a selection of one resolved entry, and nothing
\* has been written since: the bound output is still the value last resolved.
C26_Witness ==
    /\ errorMessage = Message("Error opening lookup dialog", 0, 0)
    /\ ~pickerOpen
    /\ ~notified
    /\ Len(selectedRecords) = 1
    /\ ~HasLoading(selectedRecords)
    /\ boundFieldValue = EmptyString
    /\ lastBoundValue = raw
    /\ lastResumed.outcome = "committed"

\* C27: never more than one openRecordForm call is in flight, and a badge
\* activated while one is in flight starts none.
C27_OneNavigationInFlight ==
    [][/\ navigations' <= 1
       /\ \A i \in 1..Len(selectedRecords) :
            (NavigateClick(i) /\ navigations > 0) =>
               UNCHANGED <<navigations, isNavigating, navTimers>>]_vars

\* A navigation is in flight while two badges can be activated.
C27_Witness ==
    /\ navigations = 1
    /\ isNavigating
    /\ NonPendingCount(selectedRecords) = 2
    /\ ~destroyed

\* C28: the flag is released when the request settles (or, for a request that
\* does not settle, when the timeout elapses): once openRecordForm has settled,
\* isNavigating is false and the next activation is accepted.
C28_ReleasedOnSettle ==
    [][(\E rejected \in BOOLEAN : NavigationSettles(rejected)) => ~isNavigating']_vars

\* C29: a navigation changes nothing the user sees, whether openRecordForm
\* resolves or rejects: the request, the settlement and the timer leave the
\* error message, the selection, the outputs, the snapshot and the version as
\* they were, notify nobody and invoke no render callback.
C29_NavigationIsSilent ==
    [][(\/ \E i \in 1..Len(selectedRecords) : NavigateClick(i)
        \/ \E rejected \in BOOLEAN : NavigationSettles(rejected)
        \/ NavigationTimerFires) =>
         /\ UNCHANGED <<errorMessage, selectedRecords, boundFieldValue, recordNamesValue,
                        lastBoundValue, stateVersion>>
         /\ ~notified'
         /\ calls' = << >>]_vars

\* openRecordForm has rejected, its timer is pending, and no error is shown
\* next to the two entries.
C29_Witness ==
    /\ navTimers # << >>
    /\ navTimers[1].rejected
    /\ navigations = 0
    /\ errorMessage = Undefined
    /\ Len(selectedRecords) = 2
    /\ ~destroyed

\* A step that starts a resolution: updateView suspending a new loadInitialData
\* call, or a stale call restarting for the value now presented.
StartsResolution ==
    \/ SomeUpdateView /\ Len(inflight') = Len(inflight) + 1
    \/ SomeResolutionStale /\ Len(inflight') = Len(inflight)

\* C30: when a resolution is started for a value with at least one valid
\* segment, then before any lookup answers Busy is true, the snapshot is that
\* value, the selection is one placeholder per parsed reference in parse order
\* with its identifier and table, the version has been bumped and a
\* registered callback has been invoked.
C30_StartShowsPlaceholders ==
    [][StartsResolution =>
         LET started == inflight'[Len(inflight')] IN
         /\ isLoadingInProgress'
         /\ lastBoundValue' = started.loadingValue
         /\ started.loadingValue = raw'
         /\ Len(selectedRecords') = Len(started.parsed)
         /\ \A k \in 1..Len(started.parsed) :
               /\ selectedRecords'[k].id = started.parsed[k].id
               /\ selectedRecords'[k].table = started.parsed[k].table
               /\ selectedRecords'[k].isLoading
         /\ stateVersion' > stateVersion
         /\ stateUpdater # NoListener => calls' # << >>]_vars

\* An updateView that presents an empty or whitespace-only value to a control
\* that is not Busy.
ObservesEmpty(v) == UpdateView(v) /\ IsBlank(v) /\ ~isLoadingInProgress

\* What the empty branch of loadInitialData leaves.
Cleared ==
    /\ selectedRecords' = << >>
    /\ lastBoundValue' = EmptyString
    /\ boundFieldValue' = EmptyString
    /\ recordNamesValue' = << >>
    /\ ~isLoadingInProgress'
    /\ Len(inflight') <= Len(inflight)

\* C31 as stated: every updateView that presents an empty value while not Busy
\* clears the selection, sets the snapshot to '', empties the outputs and bumps
\* the version.
C31_EmptyClears ==
    [][\A v \in BoundValues \cup {boundFieldValue} :
         ObservesEmpty(v) => (Cleared /\ stateVersion' = stateVersion + 1)]_vars

\* C31 amended: an updateView that presents an empty value while not Busy, to a
\* control that is not initialized or whose snapshot is not that very string,
\* clears the selection, sets the snapshot to '', empties the outputs and bumps
\* the version by one; so does, with a second bump, a stale resolution that
\* finds the value empty when it resumes.  An updateView that presents the
\* string the snapshot already holds changes nothing.
C31_EmptyClearsWhenChanged ==
    [][/\ \A v \in BoundValues \cup {boundFieldValue} :
            ObservesEmpty(v) =>
               IF ~isInitialized \/ v # lastBoundValue
               THEN Cleared /\ stateVersion' = stateVersion + 1
               ELSE UNCHANGED <<selectedRecords, lastBoundValue, boundFieldValue,
                                recordNamesValue, stateVersion, inflight>>
       /\ (SomeResolutionStale /\ IsBlank(raw)) =>
               (Cleared /\ stateVersion' = stateVersion + 2)]_vars

\* A whitespace-only value has been presented right after a resolution had
\* committed its entries: the version counts the start, the commit and the
\* clearing, so nothing else has emptied the selection.
C31_Witness ==
    /\ raw = << Text(" ") >>
    /\ lastResumed.outcome = "committed"
    /\ ~lastResumed.call.dropped
    /\ stateVersion = 3
    /\ selectedRecords = << >>
    /\ lastBoundValue = EmptyString
    /\ boundFieldValue = EmptyString
    /\ recordNamesValue = << >>

\* getOutputs(), lines 481-487.
getOutputs ==
    [boundField |-> boundFieldValue,
     recordNamesOutput |-> recordNamesValue,
     selectionCount |-> NonPendingCount(selectedRecords)]

\* The display names of the entries that are not placeholders, in selection order.
NamesOf(records) ==
    LET kept == SelectSeq(records, LAMBDA r : ~r.isLoading)
    IN [k \in 1..Len(kept) |-> kept[k].name]

\* C32: in every state in which no resolution is in flight, the names output
\* that getOutputs returns is the list of the display names of the entries of
\* the selection that are not placeholders, in selection order.
C32_NamesFollowSelection ==
    inflight = << >> => getOutputs.recordNamesOutput = NamesOf(selectedRecords)

\* No resolution is in flight, the selection holds a placeholder next to a
\* picked record, and the names output lists the picked record alone.
C32_Witness ==
    /\ inflight = << >>
    /\ Len(selectedRecords) = 2
    /\ selectedRecords[1].isLoading
    /\ ~selectedRecords[2].isLoading
    /\ getOutputs.recordNamesOutput = << "Bob" >>

FirstColon(segment) ==
    CHOOSE c \in 1..Len(segment) : segment[c] = ":" /\ \A j \in 1..(c - 1) : segment[j] # ":"
IdentifierOf(segment) == TrimText(SubSeq(segment, 1, FirstColon(segment) - 1))
TypeOf(segment) == TrimText(SubSeq(segment, FirstColon(segment) + 1, Len(segment)))
WellFormed(segment) ==
    /\ \E c \in 1..Len(segment) : segment[c] = ":"
    /\ LET digits == SelectSeq(IdentifierOf(segment), LAMBDA c : c # "{" /\ c # "}")
       IN /\ Len(digits) = 4
          /\ digits[1] \in HexDigits /\ digits[2] \in HexDigits
          /\ digits[3] = "-"
          /\ digits[4] \in HexDigits
    /\ TypeOf(segment) # << >>

\* The reference a well-formed segment denotes: identifier without braces in
\* lower case, type in lower case.
Denoted(segment) ==
    [id |-> LowerText(SelectSeq(IdentifierOf(segment), LAMBDA c : c # "{" /\ c # "}")),
     table |-> LowerText(TypeOf(segment))]

\* The well-formed segments of a list, in order.
WellFormedOf(segments) == SelectSeq(segments, WellFormed)

\* C34: parseBoundValue returns one reference per well-formed segment of the
\* string, in the order of the segments and without removing duplicates: the
\* identifier normalized, the type in lower case.  Every other segment leaves
\* nothing, and the empty string yields the empty sequence.
C34_ParseKeepsWellFormed ==
    codec.stage \in { "parsed", "serialized", "reparsed" } =>
        LET kept == WellFormedOf(codec.segments) IN
        /\ Len(codec.parsed) = Len(kept)
        /\ \A k \in 1..Len(kept) : codec.parsed[k] = Denoted(kept[k])
        /\ codec.boundValue = << >> => codec.parsed = << >>

\* '{A1-B}:T;a1-b:t:u' has been parsed: two references with the same
\* identifier, the second one with the type 't:u'.
C34_Witness ==
    /\ codec.stage = "parsed"
    /\ codec.segments = << << "{", "A", "1", "-", "B", "}", ":", "T" >>,
                           << "a", "1", "-", "b", ":", "t", ":", "u" >> >>
    /\ codec.parsed = << [id |-> << "a", "1", "-", "b" >>, table |-> << "t" >>],
                         [id |-> << "a", "1", "-", "b" >>, table |-> << "t", ":", "u" >>] >>

\* C35: for a string all of whose segments are well formed,
\* serializeToBoundValue(parseBoundValue(s)) has one segment per segment of s,
\* in order, with the same identifier and type up to case, braces and
\* surrounding whitespace; and for every string parsing the serialization
\* gives the parse again.
C35_RoundTrip ==
    codec.stage = "reparsed" =>
        /\ codec.reparsed = codec.parsed
        /\ (\A k \in 1..Len(codec.segments) : WellFormed(codec.segments[k])) =>
              LET written == IF codec.serialized = << >> THEN << >>
                             ELSE SplitText(codec.serialized, ";")
              IN /\ Len(written) = Len(codec.segments)
                 /\ \A k \in 1..Len(written) :
                       written[k] = Denoted(codec.segments[k]).id \o << ":" >>
                                      \o Denoted(codec.segments[k]).table

\* ' a1-b : t ;{A1-B}:T' has gone through parse, serialize and parse: the
\* serialization is 'a1-b:t;a1-b:t'.
C35_Witness ==
    /\ codec.stage = "reparsed"
    /\ codec.segments = << << " ", "a", "1", "-", "b", " ", ":", " ", "t", " " >>,
                           << "{", "A", "1", "-", "B", "}", ":", "T" >> >>
    /\ codec.serialized = << "a", "1", "-", "b", ":", "t", ";", "a", "1", "-", "b", ":", "t" >>
    /\ Len(codec.reparsed) = 2

\* C36: the filter generateExclusionFilter returns for a table lists exactly
\* the normalized identifiers of the entries of that table that are not
\* placeholders, and there is no filter when there is no such entry.
C36_ExcludesNonPendingOfType ==
    filterCall.stage = "returned" =>
        LET ofType == SelectSeq(filterCall.selectedRecords,
                                LAMBDA r : /\ ToLowerCase(r.table) = ToLowerCase(filterCall.tableName)
                                           /\ ~r.isLoading)
        IN IF ofType = << >>
           THEN filterCall.result.isNull
           ELSE /\ ~filterCall.result.isNull
                /\ filterCall.result.values = [k \in 1..Len(ofType) |-> normalizeGuid(ofType[k].id)]

\* What the host and the user do: updateView, a picker request, a remove, and
\* the picker being closed with or without records or failing.
HostOrUser ==
    \/ Calls
    \/ \E results \in PickResults : PickerReturns(results)
    \/ PickerCancelled
    \/ PickerFails

\* C37: if from some point on the host presents no new value and the user does
\* nothing, while every lookup settles, then from some point on Busy is false
\* and the selection holds no placeholder.
C37_PlaceholdersGetResolved ==
    <>[][~HostOrUser]_vars => <>[](~isLoadingInProgress /\ ~HasLoading(selectedRecords))

\* C38: an updateView that presents the value the previous updateView
\* presented, to an initialized control that is not Busy, starts no resolution
\* and leaves the version as it is, whatever the value: well formed, empty,
\* whitespace only, or made of malformed segments.
C38_SameValueIsNoOp ==
    [][\A v \in BoundValues \cup {boundFieldValue} :
         (v = raw /\ isInitialized /\ ~isLoadingInProgress /\ UpdateView(v)) =>
            (inflight' = inflight /\ stateVersion' = stateVersion)]_vars

\* C39: a picker request made while Busy is true does not open the picker and
\* leaves the selection, the outputs, the error message and the version as
\* they are; and the results of the picker are only ever applied to a
\* selection without placeholders.
C39_NoPickWhileBusy ==
    [][/\ (LookupClick /\ isLoadingInProgress) =>
            /\ ~pickerOpen'
            /\ UNCHANGED <<selectedRecords, boundFieldValue, recordNamesValue, errorMessage,
                           stateVersion, lastBoundValue>>
            /\ ~notified'
       /\ \A results \in PickResults :
            PickerReturns(results) => ~HasLoading(selectedRecords)]_vars

\* C40: once destroy() has run, a resolution that was in flight and resumes
\* leaves the selection empty, the outputs and the error message as destroy
\* left them, does not notify the host and invokes no render callback.
C40_NothingAfterDestroy ==
    [][(destroyed /\ (SomeResolutionCommitted \/ SomeResolutionStale)) =>
          /\ UNCHANGED <<selectedRecords, boundFieldValue, recordNamesValue, errorMessage>>
          /\ ~notified'
          /\ calls' = << >>]_vars

====
